---- MODULE Spec2Model ----
(***************************************************************************)
(* A model of the snake game of src/main.rs: the value types Point and     *)
(* Direction, the Snake (body, heading, deferred growth), the SnakePit      *)
(* (height, width) and the SnakeEngine (tick, food placement).              *)
(*                                                                         *)
(* Two specifications share the variables:                                 *)
(*   Spec       a SnakeEngine built by new_with_snake_length and driven by  *)
(*              any sequence of change_snake_direction and tick calls;      *)
(*   SnakeSpec  a bare Snake built by Snake::new and driven by any sequence *)
(*              of change_direction, make_longer and move_to_next_position  *)
(*              calls, as the unit tests do.                                *)
(***************************************************************************)
EXTENDS Integers, Sequences, FiniteSets, TLC

(* ---- bounds of the model ---- *)
MaxHeight == 3     \* pit heights are drawn from 0..MaxHeight
MaxWidth == 4      \* pit widths are drawn from 0..MaxWidth
MaxLen == 2        \* engine snake lengths are drawn from 1..MaxLen
MaxTicks == 5      \* tick calls per engine run
MaxMoves == 4      \* move_to_next_position calls per bare snake run
MaxOrigin == 1     \* bare snake origins are drawn from (0..MaxOrigin)^2
MaxSnakeLen == 3   \* bare snake lengths are drawn from 1..MaxSnakeLen

Direction == {"Up", "Down", "Left", "Right"}

Point(px, py) == [x |-> px, y |-> py]

VARIABLES
    pc,                   \* "start", "engine", "panicked" (Spec); "snake" (SnakeSpec)
    snake_length,         \* the length argument of the constructor
    origin,               \* the origin argument of Snake::new
    body,                 \* Snake.body: sequence of Point, head last
    direction,            \* Snake.direction
    longer_on_next_move,  \* Snake.longer_on_next_move
    height,               \* SnakePit.height
    width,                \* SnakePit.width
    snack_position,       \* SnakeEngine.snack_position
    eaten,                \* history: the number of ticks that consumed the food
    straight,             \* history: the ContinueAtLevel ticks in a row since the last
                          \*          change_direction call or Finished
    snack_stale,          \* history: the last food replacement of a tick found no free cell
    results,              \* history: the GameStatus returned by each tick call
    moves,                \* history: the heading used by each bare snake move
    last_op               \* history: the last call made, with its argument

vars == <<pc, snake_length, origin, body, direction, longer_on_next_move,
          height, width, snack_position, eaten, straight, snack_stale, results,
          moves, last_op>>

Op(name, arg) == [name |-> name, arg |-> arg]

(* ---- Snake ---- *)

\* mutant: a plain subtraction, which goes below 0
saturating_sub_plain(a, b) == a - b

saturating_sub(a, b) == IF a >= b THEN a - b ELSE 0

\* u32::saturating_add clamps at u32::MAX = 2^32 - 1, a value beyond the
\* integers of the model checker; every coordinate of the model stays below
\* 2 + MaxLen + MaxTicks, so the clamp is never the case and the sum is exact.
saturating_add(a, b) == a + b

\* mutant: the offset x is forgotten, every point is the origin
Snake_new_all_at_origin(length, o) ==
    [i \in 1..length |-> Point(o.x, o.y)]

Snake_new(length, o) ==
    [i \in 1..length |-> Point(o.x + (i - 1), o.y)]

last(b) == b[Len(b)]

\* mutant: the y axis points up, so Up adds and Down subtracts
updated_head_y_up(head, d) ==
    CASE d = "Up"    -> Point(head.x, saturating_add(head.y, 1))
      [] d = "Down"  -> Point(head.x, saturating_sub(head.y, 1))
      [] d = "Left"  -> Point(saturating_sub(head.x, 1), head.y)
      [] d = "Right" -> Point(saturating_add(head.x, 1), head.y)

updated_head(head, d) ==
    CASE d = "Up"    -> Point(head.x, saturating_sub(head.y, 1))
      [] d = "Down"  -> Point(head.x, saturating_add(head.y, 1))
      [] d = "Left"  -> Point(saturating_sub(head.x, 1), head.y)
      [] d = "Right" -> Point(saturating_add(head.x, 1), head.y)

\* mutant: the tail is removed whether or not a growth is pending
move_to_next_position_always_drop(b, d, longer) ==
    Tail(Append(b, updated_head(last(b), d)))

\* mutant: remove(1) instead of remove(0)
move_to_next_position_remove_second(b, d, longer) ==
    LET pushed == Append(b, updated_head(last(b), d))
    IN  IF ~longer
        THEN SubSeq(pushed, 1, 1) \o SubSeq(pushed, 3, Len(pushed))
        ELSE pushed

\* the body after move_to_next_position: push the new head, then remove(0)
\* unless longer_on_next_move
move_to_next_position(b, d, longer) ==
    LET pushed == Append(b, updated_head(last(b), d))
    IN  IF ~longer THEN Tail(pushed) ELSE pushed

is_eating_snack(b, snack) == last(b) = snack

\* mutant: the head is compared with the whole body, itself included
is_eating_itself_whole_body(b) ==
    LET head == last(b)
    IN  \E i \in 1..Len(b) : head = b[i]

is_eating_itself(b) ==
    LET head == last(b)
        all_but_head == SubSeq(b, 1, Len(b) - 1)
    IN  \E i \in 1..Len(all_but_head) : head = all_but_head[i]

\* mutant: only the head is compared with the point
collides_with_point_head_only(b, point) == last(b) = point

collides_with_point(b, point) == \E i \in 1..Len(b) : b[i] = point

\* mutant: the low limits are tested with < 0, never true of an unsigned
collides_with_bounds_below_zero(b, h, w) ==
    LET head == last(b)
    IN  head.x < 0 \/ head.y < 0 \/ head.x >= w \/ head.y >= h

\* mutant: the high limits are exclusive (> instead of >=)
collides_with_bounds_exclusive(b, h, w) ==
    LET head == last(b)
    IN  head.x <= 0 \/ head.y <= 0 \/ head.x > w \/ head.y > h

collides_with_bounds(b, h, w) ==
    LET head == last(b)
    IN  head.x <= 0 \/ head.y <= 0 \/ head.x >= w \/ head.y >= h

(* ---- SnakeEngine ---- *)

\* mutant: the candidate cells start at 0, so the wall ring is offered
possible_snacks_from_zero(h, w, b) ==
    {p \in {Point(px, py) : px \in 0..(w - 1), py \in 0..(h - 1)} :
        ~collides_with_point(b, p)}

\* mutant: the last column and the last row below the limits are left out
possible_snacks_inner(h, w, b) ==
    {p \in {Point(px, py) : px \in 1..(w - 2), py \in 1..(h - 2)} :
        ~collides_with_point(b, p)}

possible_snacks(h, w, b) ==
    {p \in {Point(px, py) : px \in 1..(w - 1), py \in 1..(h - 1)} :
        ~collides_with_point(b, p)}

\* mutant: with no free cell the first interior cell is returned
generate_snack_fallback(h, w, b) ==
    LET ps == possible_snacks(h, w, b)
    IN  IF ps = {} THEN {{Point(1, 1)}} ELSE {{p} : p \in ps}

\* Option<Point> as a set: None is {}, Some(p) is {p}.  The result is the set
\* of the values the random choice can return.
generate_snack(h, w, b) ==
    LET ps == possible_snacks(h, w, b)
    IN  IF ps = {} THEN {{}} ELSE {{p} : p \in ps}

NoPoint == Point(0, 0)

Init ==
    /\ pc = "start"
    /\ snake_length \in 1..MaxLen
    /\ origin = Point(2, 2)
    /\ height \in 0..MaxHeight
    /\ width \in 0..MaxWidth
    /\ body = <<>>
    /\ direction = "Right"
    /\ longer_on_next_move = FALSE
    /\ snack_position = NoPoint
    /\ eaten = 0
    /\ straight = 0
    /\ snack_stale = FALSE
    /\ results = <<>>
    /\ moves = <<>>
    /\ last_op = Op("none", "-")

new_with_snake_length ==
    /\ pc = "start"
    /\ LET snake == Snake_new(snake_length, origin)
       IN  \E opt \in generate_snack(height, width, snake) :
              IF opt # {}
              THEN /\ pc' = "engine"
                   /\ body' = snake
                   /\ snack_position' = CHOOSE p \in opt : TRUE
              ELSE /\ pc' = "panicked"
                   /\ UNCHANGED <<body, snack_position>>
    /\ last_op' = Op("new", "-")
    /\ UNCHANGED <<snake_length, origin, direction, longer_on_next_move,
                   height, width, eaten, straight, snack_stale, results, moves>>

\* mutant: a reversal of the heading is ignored
change_direction_no_reversal(d) ==
    LET opposite == CASE direction = "Up" -> "Down"
                      [] direction = "Down" -> "Up"
                      [] direction = "Left" -> "Right"
                      [] direction = "Right" -> "Left"
    IN  direction' = IF d = opposite THEN direction ELSE d

change_direction(d) == direction' = d

change_snake_direction(d) ==
    /\ pc = "engine"
    /\ change_direction(d)
    /\ last_op' = Op("change_direction", d)
    /\ straight' = 0
    /\ UNCHANGED <<pc, snake_length, origin, body, longer_on_next_move,
                   height, width, snack_position, eaten, snack_stale, results,
                   moves>>

\* mutant: the food is consumed before the collisions are checked
tick_snack_first ==
    /\ pc = "engine"
    /\ Len(results) < MaxTicks
    /\ LET moved == move_to_next_position(body, direction, longer_on_next_move)
           eats == is_eating_snack(moved, snack_position)
       IN  /\ body' = moved
           /\ longer_on_next_move' = eats
           /\ eaten' = IF eats THEN eaten + 1 ELSE eaten
           /\ straight' =
                 IF collides_with_bounds(moved, height, width) \/ is_eating_itself(moved)
                 THEN 0 ELSE straight + 1
           /\ IF eats
              THEN \E opt \in generate_snack(height, width, moved) :
                      IF opt # {}
                      THEN /\ snack_position' = CHOOSE p \in opt : TRUE
                           /\ snack_stale' = FALSE
                      ELSE /\ UNCHANGED snack_position
                           /\ snack_stale' = TRUE
              ELSE UNCHANGED <<snack_position, snack_stale>>
           /\ results' = Append(results,
                 IF collides_with_bounds(moved, height, width) \/ is_eating_itself(moved)
                 THEN "Finished" ELSE "ContinueAtLevel0")
    /\ last_op' = Op("tick", "-")
    /\ UNCHANGED <<pc, snake_length, origin, direction, height, width, moves>>

tick ==
    /\ pc = "engine"
    /\ Len(results) < MaxTicks
    /\ LET moved == move_to_next_position(body, direction, longer_on_next_move)
       IN  /\ body' = moved
           /\ IF collides_with_bounds(moved, height, width) \/ is_eating_itself(moved)
              THEN /\ longer_on_next_move' = FALSE
                   /\ UNCHANGED <<snack_position, snack_stale, eaten>>
                   /\ straight' = 0
                   /\ results' = Append(results, "Finished")
              ELSE /\ IF is_eating_snack(moved, snack_position)
                      THEN /\ longer_on_next_move' = TRUE
                           /\ eaten' = eaten + 1
                           /\ \E opt \in generate_snack(height, width, moved) :
                                 IF opt # {}
                                 THEN /\ snack_position' = CHOOSE p \in opt : TRUE
                                      /\ snack_stale' = FALSE
                                 ELSE /\ UNCHANGED snack_position
                                      /\ snack_stale' = TRUE
                      ELSE /\ longer_on_next_move' = FALSE
                           /\ UNCHANGED <<snack_position, snack_stale, eaten>>
                   /\ straight' = straight + 1
                   /\ results' = Append(results, "ContinueAtLevel0")
    /\ last_op' = Op("tick", "-")
    /\ UNCHANGED <<pc, snake_length, origin, direction, height, width, moves>>

Next ==
    \/ new_with_snake_length
    \/ \E d \in Direction : change_snake_direction(d)
    \/ tick

Spec == Init /\ [][Next]_vars

(* ---- a bare Snake, as the unit tests drive it ---- *)

SnakeInit ==
    /\ pc = "snake"
    /\ snake_length \in 1..MaxSnakeLen
    /\ origin \in {Point(ox, oy) : ox \in 0..MaxOrigin, oy \in 0..MaxOrigin}
    /\ body = Snake_new(snake_length, origin)
    /\ direction = "Right"
    /\ longer_on_next_move = FALSE
    /\ height = 0
    /\ width = 0
    /\ snack_position = NoPoint
    /\ eaten = 0
    /\ straight = 0
    /\ snack_stale = FALSE
    /\ results = <<>>
    /\ moves = <<>>
    /\ last_op = Op("new", "-")

snake_move ==
    /\ pc = "snake"
    /\ Len(moves) < MaxMoves
    /\ body' = move_to_next_position(body, direction, longer_on_next_move)
    /\ longer_on_next_move' = FALSE
    /\ moves' = Append(moves, direction)
    /\ last_op' = Op("move_to_next_position", "-")
    /\ UNCHANGED <<pc, snake_length, origin, direction, height, width,
                   snack_position, eaten, straight, snack_stale, results>>

snake_change_direction(d) ==
    /\ pc = "snake"
    /\ change_direction(d)
    /\ last_op' = Op("change_direction", d)
    /\ UNCHANGED <<pc, snake_length, origin, body, longer_on_next_move,
                   height, width, snack_position, eaten, straight, snack_stale,
                   results, moves>>

make_longer ==
    /\ pc = "snake"
    /\ longer_on_next_move' = TRUE
    /\ last_op' = Op("make_longer", "-")
    /\ UNCHANGED <<pc, snake_length, origin, body, direction, height, width,
                   snack_position, eaten, straight, snack_stale, results, moves>>

SnakeNext ==
    \/ snake_move
    \/ \E d \in Direction : snake_change_direction(d)
    \/ make_longer

SnakeSpec == SnakeInit /\ [][SnakeNext]_vars

(* ======================= the claims ======================= *)

\* C1: every tick call first moves the snake one step (the new head is the
\* old head shifted one cell in the heading, clamped at 0) and returns
\* Finished exactly when the post-move head is on or beyond the pit bounds
\* (x = 0, y = 0, x >= width, y >= height) or equals another body segment;
\* otherwise it returns ContinueAtLevel(0).
C1_TickStatus ==
    [][last_op'.name = "tick" =>
        LET old == body[Len(body)]
            head == body'[Len(body')]
            shifted ==
                CASE direction = "Up" -> Point(old.x, IF old.y = 0 THEN 0 ELSE old.y - 1)
                  [] direction = "Down" -> Point(old.x, old.y + 1)
                  [] direction = "Left" -> Point(IF old.x = 0 THEN 0 ELSE old.x - 1, old.y)
                  [] direction = "Right" -> Point(old.x + 1, old.y)
            hit == \/ head.x = 0
                   \/ head.y = 0
                   \/ head.x >= width
                   \/ head.y >= height
                   \/ \E i \in 1..(Len(body') - 1) : body'[i] = head
        IN  /\ head = shifted
            /\ Len(results') = Len(results) + 1
            /\ results'[Len(results')] = (IF hit THEN "Finished" ELSE "ContinueAtLevel0")
    ]_vars

\* C1 witness: a tick has returned Finished with the head inside the bounds,
\* that is, because the head ran into another body segment.
C1_Witness ==
    /\ pc = "engine"
    /\ last_op.name = "tick"
    /\ results[Len(results)] = "Finished"
    /\ LET head == body[Len(body)]
       IN  head.x > 0 /\ head.y > 0 /\ head.x < width /\ head.y < height

\* C2: Finished is terminal: once a tick has returned Finished, every later
\* tick returns Finished too.
C2_FinishedIsTerminal ==
    [][(/\ results # <<>>
        /\ results[Len(results)] = "Finished"
        /\ last_op'.name = "tick")
       => results'[Len(results')] = "Finished"]_vars

\* C3 (as stated): at rest, after construction and after every tick, the
\* food is on no cell of the snake body.
C3_FoodNeverOnBody ==
    pc = "engine" => \A i \in 1..Len(body) : body[i] # snack_position

\* C3 (amended): at rest the food is on no cell of the snake body, unless the
\* most recent food replacement of a tick found no free interior cell and
\* left the food where it was eaten.
C3_FoodOffBodyUnlessStale ==
    (pc = "engine" /\ ~snack_stale)
       => \A i \in 1..Len(body) : body[i] # snack_position

\* C3 witness: a tick has consumed the food and placed a new one, and the
\* new food is off the body, now one longer than at construction.
C3_Witness ==
    /\ pc = "engine"
    /\ ~snack_stale
    /\ Len(body) > snake_length
    /\ last_op.name = "tick"
    /\ \A i \in 1..Len(body) : body[i] # snack_position

\* C4: construction fails exactly when no cell with 1 <= x < width and
\* 1 <= y < height is free of the initial snake (then the snake covers every
\* playable cell); otherwise the engine has the body (2,2),(3,2),.. of the
\* given length, heading Right, no growth pending, the given pit, food on a
\* free interior cell, and no tick has returned Finished.
C4_Construction ==
    LET initial == {Point(2 + k, 2) : k \in 0..(snake_length - 1)}
        playable == {Point(px, py) : px \in 1..(width - 1), py \in 1..(height - 1)}
    IN  /\ pc = "panicked" => (playable \ initial = {} /\ playable \subseteq initial)
        /\ pc = "engine" => playable \ initial # {}
        /\ (pc = "engine" /\ last_op.name = "new") =>
              /\ Len(body) = snake_length
              /\ \A i \in 1..snake_length : body[i] = Point(2 + (i - 1), 2)
              /\ direction = "Right"
              /\ longer_on_next_move = FALSE
              /\ snack_position \in playable \ initial
              /\ results = <<>>
        /\ last_op.name = "new" => pc \in {"engine", "panicked"}

\* C4 witness: construction has failed on a pit that has a width of 2 or
\* more but no playable row.
C4_Witness ==
    pc = "panicked" /\ last_op.name = "new" /\ width >= 2

\* C5: move_to_next_position appends one new head, the old head shifted one
\* cell in the heading (clamped at 0); without growth pending the tail is
\* removed, so the body is the old body without its first point plus the new
\* head and the length is unchanged; with growth pending every old point is
\* kept in order and the length grows by exactly 1.  The growth-pending flag
\* is false afterwards in both cases.
C5_MoveAppendsHead ==
    [][last_op'.name = "move_to_next_position" =>
        LET n == Len(body)
            old == body[n]
            head ==
                CASE direction = "Up" -> Point(old.x, IF old.y = 0 THEN 0 ELSE old.y - 1)
                  [] direction = "Down" -> Point(old.x, old.y + 1)
                  [] direction = "Left" -> Point(IF old.x = 0 THEN 0 ELSE old.x - 1, old.y)
                  [] direction = "Right" -> Point(old.x + 1, old.y)
        IN  /\ n >= 1
            /\ longer_on_next_move =>
                  /\ Len(body') = n + 1
                  /\ \A i \in 1..n : body'[i] = body[i]
                  /\ body'[n + 1] = head
            /\ ~longer_on_next_move =>
                  /\ Len(body') = n
                  /\ \A i \in 1..(n - 1) : body'[i] = body[i + 1]
                  /\ body'[n] = head
            /\ longer_on_next_move' = FALSE
    ]_vars

\* C5 witness: a move with growth pending has just been made: the body is
\* longer than at construction and the flag is clear again.
C5_Witness ==
    /\ pc = "snake"
    /\ last_op.name = "move_to_next_position"
    /\ Len(body) = snake_length + 2
    /\ ~longer_on_next_move

\* C6: after every tick up to and including the first tick that returns
\* Finished, every two consecutive body points are at Manhattan distance
\* exactly 1.
C6_AdjacentUntilFinished ==
    (/\ pc = "engine"
     /\ results # <<>>
     /\ \A k \in 1..(Len(results) - 1) : results[k] # "Finished")
    => \A i \in 1..(Len(body) - 1) :
          LET dx == body[i + 1].x - body[i].x
              dy == body[i + 1].y - body[i].y
          IN  (IF dx < 0 THEN -dx ELSE dx) + (IF dy < 0 THEN -dy ELSE dy) = 1

\* C6 witness: the first Finished has just been returned, after a turn, by a
\* snake that has grown.
C6_Witness ==
    /\ pc = "engine"
    /\ Len(results) >= 3
    /\ results[Len(results)] = "Finished"
    /\ \A k \in 1..(Len(results) - 1) : results[k] # "Finished"
    /\ Len(body) > snake_length
    /\ \E i \in 1..Len(body) : body[i].y # 2

\* C7: a tick that consumes the food (post-move head on the food, no
\* collision) while no cell with 1 <= x < width, 1 <= y < height is free of
\* the body leaves the food where it is, marks the snake to grow and returns
\* ContinueAtLevel(0).
C7_NoFreeCellIsNoError ==
    [][(/\ last_op'.name = "tick"
        /\ LET head == body'[Len(body')]
           IN  /\ head = snack_position
               /\ head.x > 0 /\ head.y > 0 /\ head.x < width /\ head.y < height
               /\ \A i \in 1..(Len(body') - 1) : body'[i] # head
        /\ \A px \in 1..(width - 1), py \in 1..(height - 1) :
              \E i \in 1..Len(body') : body'[i] = Point(px, py))
       => /\ snack_position' = snack_position
          /\ longer_on_next_move' = TRUE
          /\ results'[Len(results')] = "ContinueAtLevel0"
          /\ pc' = "engine"
    ]_vars

\* C7 witness: a tick has just consumed the food with the body covering
\* every interior cell of a pit with four interior cells.
C7_Witness ==
    /\ pc = "engine"
    /\ last_op.name = "tick"
    /\ snack_stale
    /\ height = 3 /\ width = 3
    /\ body[Len(body)] = snack_position
    /\ longer_on_next_move
    /\ results[Len(results)] = "ContinueAtLevel0"

\* C8: for the pit of the engine and for the pits whose limits are at the
\* head or one past it, collides_with_bounds of the snake is true exactly when
\* head.x = 0 or head.x >= width or head.y = 0 or head.y >= height, and it is
\* the same for other bodies that end in the same head (the head alone, and
\* the head behind a point outside and a point inside the pit).
C8_CollidesWithBounds ==
    pc = "engine" =>
        LET head == body[Len(body)]
        IN  \A h \in {height, head.y, head.y + 1}, w \in {width, head.x, head.x + 1} :
               /\ collides_with_bounds(body, h, w)
                     <=> (head.x = 0 \/ head.x >= w \/ head.y = 0 \/ head.y >= h)
               /\ collides_with_bounds(<<head>>, h, w)
                     <=> collides_with_bounds(body, h, w)
               /\ collides_with_bounds(<<Point(w, h), Point(1, 1), head>>, h, w)
                     <=> collides_with_bounds(body, h, w)

\* C8 witness: a tick has returned Finished for a snake of several points
\* whose head is exactly on the width limit of its pit, in a row inside the
\* pit, while its tail is inside.
C8_Witness ==
    /\ pc = "engine"
    /\ last_op.name = "tick"
    /\ results[Len(results)] = "Finished"
    /\ Len(body) >= 2
    /\ body[Len(body)].x = width
    /\ body[Len(body)].y > 0 /\ body[Len(body)].y < height
    /\ body[1].x < width

\* C9: change_direction(d) sets the heading to d and leaves the body, the
\* growth-pending flag, the food and the pit unchanged; a second call with
\* the same direction changes nothing; and the move of a tick uses the
\* direction of the last call made before it.
C9_ChangeDirection ==
    [][/\ last_op'.name = "change_direction" =>
            /\ direction' = last_op'.arg
            /\ UNCHANGED <<body, longer_on_next_move, snack_position,
                           height, width, results, pc>>
       /\ (last_op.name = "change_direction" /\ last_op' = last_op) =>
            UNCHANGED <<body, direction, longer_on_next_move, snack_position,
                        height, width, results, pc>>
       /\ (last_op.name = "change_direction" /\ last_op'.name = "tick") =>
            LET old == body[Len(body)]
                d == last_op.arg
            IN  body'[Len(body')] =
                   CASE d = "Up" -> Point(old.x, IF old.y = 0 THEN 0 ELSE old.y - 1)
                     [] d = "Down" -> Point(old.x, old.y + 1)
                     [] d = "Left" -> Point(IF old.x = 0 THEN 0 ELSE old.x - 1, old.y)
                     [] d = "Right" -> Point(old.x + 1, old.y)
    ]_vars

\* C9 witness: the heading has just been reversed (Left, after a first move
\* to the right) while a growth is pending.
C9_Witness ==
    /\ pc = "engine"
    /\ last_op = Op("change_direction", "Left")
    /\ direction = "Left"
    /\ longer_on_next_move
    /\ Len(body) >= 2
    /\ body[Len(body)].x = body[Len(body) - 1].x + 1

\* C10 (as stated): from the body [(0,0),(1,0),(2,0)], the direction changes
\* Down, Left, Up, Right with one move after each give the body
\* [(2,1),(2,0),(3,0)].
C10_ScenarioFromOrigin ==
    (/\ pc = "snake"
     /\ origin = Point(0, 0)
     /\ snake_length = 3
     /\ Len(body) = 3
     /\ moves = <<"Down", "Left", "Up", "Right">>)
    => body = <<Point(2, 1), Point(2, 0), Point(3, 0)>>

\* C10 (amended): from the body [(1,0),(2,0),(3,0)], the direction changes
\* Down, Left, Up, Right with one move after each give the body
\* [(2,1),(2,0),(3,0)].
C10_ScenarioAfterFirstMove ==
    (/\ pc = "snake"
     /\ origin = Point(1, 0)
     /\ snake_length = 3
     /\ Len(body) = 3
     /\ moves = <<"Down", "Left", "Up", "Right">>)
    => body = <<Point(2, 1), Point(2, 0), Point(3, 0)>>

\* C10 witness: the four moves of the scenario have been made from the body
\* [(1,0),(2,0),(3,0)] without any growth.
C10_Witness ==
    /\ pc = "snake"
    /\ origin = Point(1, 0)
    /\ snake_length = 3
    /\ Len(body) = 3
    /\ moves = <<"Down", "Left", "Up", "Right">>
    /\ last_op.name = "move_to_next_position"

\* C11: collision is checked before food consumption: a tick that returns
\* Finished leaves the food where it was, generates no food, leaves the
\* growth-pending flag false and leaves the body as the post-move body (old
\* body, minus its tail unless a growth was pending, plus the new head),
\* also when the post-move head is on the food cell.
C11_FinishedBeforeFood ==
    [][(last_op'.name = "tick" /\ results'[Len(results')] = "Finished") =>
        LET n == Len(body)
        IN  /\ snack_position' = snack_position
            /\ snack_stale' = snack_stale
            /\ longer_on_next_move' = FALSE
            /\ longer_on_next_move =>
                  /\ Len(body') = n + 1
                  /\ \A i \in 1..n : body'[i] = body[i]
            /\ ~longer_on_next_move =>
                  /\ Len(body') = n
                  /\ \A i \in 1..(n - 1) : body'[i] = body[i + 1]
    ]_vars

\* C11 witness: a tick has returned Finished with the post-move head on the
\* food cell.
C11_Witness ==
    /\ pc = "engine"
    /\ last_op.name = "tick"
    /\ results[Len(results)] = "Finished"
    /\ body[Len(body)] = snack_position
    /\ ~longer_on_next_move

\* C12 (as stated): in an engine that has returned no Finished and whose
\* snake has more than one segment, change_direction to the exact opposite of
\* the last step (second-to-last point to head) followed by tick returns
\* Finished.
C12_ReversalFinishes ==
    [][(/\ pc = "engine"
        /\ \A k \in 1..Len(results) : results[k] # "Finished"
        /\ Len(body) >= 2
        /\ LET head == body[Len(body)]
               neck == body[Len(body) - 1]
           IN  last_op = Op("change_direction",
                            CASE head.x = neck.x + 1 -> "Left"
                              [] head.x = neck.x - 1 -> "Right"
                              [] head.y = neck.y + 1 -> "Up"
                              [] head.y = neck.y - 1 -> "Down")
        /\ last_op'.name = "tick")
       => results'[Len(results')] = "Finished"
    ]_vars

\* C12 (amended): the same, for a snake that has more than two segments, or
\* exactly two segments and a growth pending.
C12_ReversalFinishesLongSnake ==
    [][(/\ pc = "engine"
        /\ \A k \in 1..Len(results) : results[k] # "Finished"
        /\ Len(body) >= 2
        /\ Len(body) >= 3 \/ longer_on_next_move
        /\ LET head == body[Len(body)]
               neck == body[Len(body) - 1]
           IN  last_op = Op("change_direction",
                            CASE head.x = neck.x + 1 -> "Left"
                              [] head.x = neck.x - 1 -> "Right"
                              [] head.y = neck.y + 1 -> "Up"
                              [] head.y = neck.y - 1 -> "Down")
        /\ last_op'.name = "tick")
       => results'[Len(results')] = "Finished"
    ]_vars

\* C12 witness: the first Finished has just been returned, after at least one
\* earlier tick, to a snake of three or more points whose head is inside the
\* bounds and back on the point that was its neck before the move.
C12_Witness ==
    /\ pc = "engine"
    /\ last_op.name = "tick"
    /\ Len(results) >= 2
    /\ results[Len(results)] = "Finished"
    /\ \A k \in 1..(Len(results) - 1) : results[k] # "Finished"
    /\ Len(body) >= 3
    /\ body[Len(body)] = body[Len(body) - 2]
    /\ LET head == body[Len(body)]
       IN  head.x > 0 /\ head.y > 0 /\ head.x < width /\ head.y < height

\* C13: whenever food is placed (construction) or replaced (a tick that
\* consumes the food), the new food is a cell with 1 <= x < width and
\* 1 <= y < height that is off the snake body of that moment, and every such
\* free cell is a possible outcome of the choice.
C13_FoodPlacement ==
    /\ [][((pc = "start" /\ pc' = "engine")
           \/ (/\ last_op'.name = "tick"
               /\ results'[Len(results')] = "ContinueAtLevel0"
               /\ body'[Len(body')] = snack_position
               /\ snack_position' # snack_position))
          => /\ snack_position'.x >= 1 /\ snack_position'.x < width
             /\ snack_position'.y >= 1 /\ snack_position'.y < height
             /\ \A i \in 1..Len(body') : body'[i] # snack_position'
       ]_vars
    /\ [](/\ pc = "start" =>
               \A px \in 1..(width - 1), py \in 1..(height - 1) :
                  (\A k \in 0..(snake_length - 1) : Point(px, py) # Point(2 + k, 2))
                  => ENABLED (new_with_snake_length /\ snack_position' = Point(px, py))
          /\ (/\ pc = "engine"
              /\ ENABLED (/\ tick
                          /\ results'[Len(results')] = "ContinueAtLevel0"
                          /\ body'[Len(body')] = snack_position))
             => LET kept == IF longer_on_next_move THEN 1 ELSE 2
                    occupied == {body[i] : i \in kept..Len(body)} \cup {snack_position}
                IN  \A px \in 1..(width - 1), py \in 1..(height - 1) :
                       Point(px, py) \notin occupied
                       => ENABLED (tick /\ snack_position' = Point(px, py)))

\* C13 witness: a tick has just replaced the food, in a pit with six
\* interior cells, and the new food is on the last column and the last row
\* below the limits.
C13_Witness ==
    /\ pc = "engine"
    /\ last_op.name = "tick"
    /\ Len(body) > snake_length
    /\ ~snack_stale
    /\ longer_on_next_move
    /\ height = 3 /\ width = 4
    /\ snack_position = Point(3, 2)

\* C14: the outer ring of the pit is wall: after a tick that returns
\* ContinueAtLevel(0) the head is on no cell with x in {0, width-1} or
\* y in {0, height-1}, and the food is never on such a cell.
C14_OuterRingIsWall ==
    pc = "engine" =>
        /\ (results # <<>> /\ results[Len(results)] = "ContinueAtLevel0") =>
              LET head == body[Len(body)]
              IN  /\ head.x # 0 /\ head.x # width - 1
                  /\ head.y # 0 /\ head.y # height - 1
        /\ snack_position.x # 0 /\ snack_position.x # width - 1
        /\ snack_position.y # 0 /\ snack_position.y # height - 1

\* C15 (as stated): a Snake made by Snake::new with length >= 1, after any
\* sequence of change_direction, make_longer and move_to_next_position
\* calls, has at least one point and every two consecutive points at
\* Manhattan distance exactly 1.
C15_BodyAdjacent ==
    pc = "snake" =>
        /\ Len(body) >= 1
        /\ \A i \in 1..(Len(body) - 1) :
              LET dx == body[i + 1].x - body[i].x
                  dy == body[i + 1].y - body[i].y
              IN  (IF dx < 0 THEN -dx ELSE dx) + (IF dy < 0 THEN -dy ELSE dy) = 1

\* C15 (amended): the body has at least one point and every two consecutive
\* points are at Manhattan distance 1, or are the same point on the column
\* x = 0 or the row y = 0 (a move Left from x = 0 or Up from y = 0 repeats
\* the head).
C15_BodyAdjacentOrSaturated ==
    pc = "snake" =>
        /\ Len(body) >= 1
        /\ \A i \in 1..(Len(body) - 1) :
              LET dx == body[i + 1].x - body[i].x
                  dy == body[i + 1].y - body[i].y
                  dist == (IF dx < 0 THEN -dx ELSE dx) + (IF dy < 0 THEN -dy ELSE dy)
              IN  \/ dist = 1
                  \/ dist = 0 /\ (body[i].x = 0 \/ body[i].y = 0)

\* C15 witness: after a turn and a growth, a move against the row y = 0 has
\* repeated the head.
C15_Witness ==
    /\ pc = "snake"
    /\ last_op.name = "move_to_next_position"
    /\ Len(body) > snake_length
    /\ Len(body) >= 3
    /\ body[Len(body)] = body[Len(body) - 1]
    /\ body[Len(body)].y = 0
    /\ \E i \in 1..Len(body) : body[i].y # 0

\* C16: coordinates never wrap or go negative: a tick heading Left from
\* head.x = 0 or Up from head.y = 0 leaves that coordinate at 0 and the head
\* where it was, every other tick changes exactly one coordinate of the head
\* by exactly 1, and every tick whose post-move head has x = 0 or y = 0
\* returns Finished.
C16_SaturatingCoordinates ==
    [][last_op'.name = "tick" =>
        LET old == body[Len(body)]
            head == body'[Len(body')]
            dx == head.x - old.x
            dy == head.y - old.y
            saturates == \/ direction = "Left" /\ old.x = 0
                         \/ direction = "Up" /\ old.y = 0
        IN  /\ \A i \in 1..Len(body') : body'[i].x >= 0 /\ body'[i].y >= 0
            /\ saturates => head = old
            /\ ~saturates =>
                  (IF dx < 0 THEN -dx ELSE dx) + (IF dy < 0 THEN -dy ELSE dy) = 1
            /\ (head.x = 0 \/ head.y = 0) => results'[Len(results')] = "Finished"
    ]_vars

\* C16 witness: a tick heading Left from a head on the column x = 0 has left
\* the head where it was and returned Finished.
C16_Witness ==
    /\ pc = "engine"
    /\ last_op.name = "tick"
    /\ direction = "Left"
    /\ Len(body) >= 2
    /\ body[Len(body)].x = 0
    /\ body[Len(body) - 1] = body[Len(body)]
    /\ results[Len(results)] = "Finished"

\* C17: tail chasing: a tick without growth pending whose new head is the
\* cell the tail occupied just before the move is no self-collision and
\* returns ContinueAtLevel(0) when the head is in bounds; the same move with
\* growth pending keeps the tail and returns Finished.
C17_TailChasing ==
    [][(/\ last_op'.name = "tick"
        /\ Len(body) >= 2
        /\ body'[Len(body')] = body[1])
       => /\ (/\ ~longer_on_next_move
              /\ body[1].x > 0 /\ body[1].x < width
              /\ body[1].y > 0 /\ body[1].y < height)
             => /\ results'[Len(results')] = "ContinueAtLevel0"
                /\ Len(body') = Len(body)
          /\ longer_on_next_move
             => /\ results'[Len(results')] = "Finished"
                /\ body'[1] = body[1]
                /\ Len(body') = Len(body) + 1
    ]_vars

\* C17 restricted to ticks made before any tick has returned Finished.
C17_TailChasingBeforeFinished ==
    [][(/\ last_op'.name = "tick"
        /\ \A k \in 1..Len(results) : results[k] # "Finished"
        /\ Len(body) >= 2
        /\ body'[Len(body')] = body[1])
       => /\ (/\ ~longer_on_next_move
              /\ body[1].x > 0 /\ body[1].x < width
              /\ body[1].y > 0 /\ body[1].y < height)
             => /\ results'[Len(results')] = "ContinueAtLevel0"
                /\ Len(body') = Len(body)
          /\ longer_on_next_move
             => /\ results'[Len(results')] = "Finished"
                /\ body'[1] = body[1]
                /\ Len(body') = Len(body) + 1
    ]_vars

\* C18: length accounting: in every engine state the body length, plus 1 if
\* a growth is pending, equals the constructed length plus the number of
\* ticks that consumed the food; the body never shrinks and grows by at most
\* one cell per tick.
C18_LengthAccounting ==
    /\ [](pc = "engine" =>
            Len(body) + (IF longer_on_next_move THEN 1 ELSE 0) = snake_length + eaten)
    /\ [][pc = "engine" =>
            /\ Len(body') >= Len(body)
            /\ Len(body') <= Len(body) + 1
            /\ eaten' >= eaten /\ eaten' <= eaten + 1
            /\ last_op'.name # "tick" => (Len(body') = Len(body) /\ eaten' = eaten)
         ]_vars

\* C18 witness: two ticks have consumed the food and both growths have been
\* made.
C18_Witness ==
    /\ pc = "engine"
    /\ eaten = 2
    /\ ~longer_on_next_move
    /\ Len(body) = snake_length + 2

\* C19: after a tick that consumed the food and found no free cell (the food
\* is still under the head, a growth is pending), the next tick returns
\* Finished whatever the heading.
C19_FullGridEndsGame ==
    [][(/\ pc = "engine"
        /\ snack_stale
        /\ longer_on_next_move
        /\ body[Len(body)] = snack_position
        /\ \A px \in 1..(width - 1), py \in 1..(height - 1) :
              \E i \in 1..Len(body) : body[i] = Point(px, py)
        /\ last_op'.name = "tick")
       => results'[Len(results')] = "Finished"
    ]_vars

\* C19 witness: a tick has returned Finished right after a tick that consumed
\* the food with no free cell left, in a pit with four interior cells, with a
\* head that left the pit.
C19_Witness ==
    /\ pc = "engine"
    /\ last_op.name = "tick"
    /\ snack_stale
    /\ height = 3 /\ width = 3
    /\ Len(results) >= 2
    /\ results[Len(results)] = "Finished"
    /\ results[Len(results) - 1] = "ContinueAtLevel0"
    /\ Len(body) = 5
    /\ body[4] = snack_position
    /\ body[5].x = 3

\* C20: with the heading left alone, the ticks do not go on returning
\* ContinueAtLevel(0): the number of ContinueAtLevel(0) ticks in a row with
\* no change_direction call in between is below max(width, height), so a
\* Finished comes after at most max(width, height) ticks.
C20_FixedHeadingFinishes ==
    pc = "engine" =>
        straight < (IF width > height THEN width ELSE height)

\* C20 witness: a Finished has been returned by the third tick in a row of a
\* fixed heading, after two ContinueAtLevel(0), in a pit of width 3.
C20_Witness ==
    /\ pc = "engine"
    /\ last_op.name = "tick"
    /\ width = 3 /\ height = 3
    /\ direction = "Left"
    /\ results = <<"ContinueAtLevel0", "ContinueAtLevel0", "Finished">>
    /\ body[Len(body)].x = 0

====
